---------------------------- MODULE Spec2Model ----------------------------
(***************************************************************************)
(* Model of plugin.video.scp/series_manager.py: text normalisation,        *)
(* episode detection, result classification, and the per-series JSON       *)
(* catalog store (save / load / list).                                     *)
(*                                                                         *)
(* Text is a sequence of one-character strings.                            *)
(***************************************************************************)
EXTENDS Integers, Sequences, FiniteSets, TLC

(***************************************************************************)
(* Characters                                                              *)
(***************************************************************************)
UpperChars == <<"A","B","C","D","E","F","G","H","I","J","K","L","M",
                "N","O","P","Q","R","S","T","U","V","W","X","Y","Z","É">>

LowerChars == <<"a","b","c","d","e","f","g","h","i","j","k","l","m",
                "n","o","p","q","r","s","t","u","v","w","x","y","z","é">>

DigitChars == <<"0","1","2","3","4","5","6","7","8","9">>

Range(f) == {f[i] : i \in DOMAIN f}

Min(S) == CHOOSE x \in S : \A y \in S : x <= y

\* upper-case character -> its lower-case form
LowerTable ==
  [c \in Range(UpperChars) |->
     LowerChars[CHOOSE i \in DOMAIN UpperChars : UpperChars[i] = c]]

\* str.lower() on one character
LowerChar(c) == IF c \in DOMAIN LowerTable THEN LowerTable[c] ELSE c

\* regex \d
DigitSet == Range(DigitChars)

IsDigit(c) == c \in DigitSet

\* regex \s
SpaceSet == {" ", "\t", "\n"}

IsSpace(c) == c \in SpaceSet

\* regex \w (Python 3 str patterns: Unicode letters, digits, underscore)
IsWord(c) == c \in Range(UpperChars) \cup Range(LowerChars) \cup Range(DigitChars) \cup {"_"}

\* characters outside ASCII (the ones the model's alphabet contains)
NonAscii == {"É", "é"}

\* unidecode.unidecode on one character: closest ASCII text
UnidecodeChar(c) ==
  IF c = "é" THEN <<"e">> ELSE IF c = "É" THEN <<"E">> ELSE <<c>>

(***************************************************************************)
(* Python str operations                                                   *)
(***************************************************************************)

Lower(s) == [i \in 1..Len(s) |-> LowerChar(s[i])]

RECURSIVE Flatten(_)
Flatten(ss) == IF ss = <<>> THEN <<>> ELSE Head(ss) \o Flatten(Tail(ss))

\* sub occurs in s at position i
OccursAt(s, sub, i) ==
  /\ i >= 1
  /\ i + Len(sub) - 1 <= Len(s)
  /\ \A k \in 1..Len(sub) : s[i + k - 1] = sub[k]

\* sub in s
Contains(s, sub) == \E i \in 1..(Len(s) + 1) : OccursAt(s, sub, i)

\* variant: s.replace(sub, '', 1), only the first occurrence
ReplaceFirst(s, sub) ==
  IF sub = <<>> \/ ~Contains(s, sub) THEN s
  ELSE LET i == Min({k \in 1..Len(s) : OccursAt(s, sub, k)}) IN
       SubSeq(s, 1, i - 1) \o SubSeq(s, i + Len(sub), Len(s))

\* s.replace(sub, ''): every non-overlapping occurrence, left to right
RECURSIVE ReplaceAll(_, _)
ReplaceAll(s, sub) ==
  IF sub = <<>> \/ s = <<>> THEN s
  ELSE IF OccursAt(s, sub, 1)
       THEN ReplaceAll(SubSeq(s, Len(sub) + 1, Len(s)), sub)
       ELSE <<s[1]>> \o ReplaceAll(Tail(s), sub)

\* s.replace(a, b) for single characters
ReplaceChar(s, a, b) == [i \in 1..Len(s) |-> IF s[i] = a THEN b ELSE s[i]]

\* s.strip()
Strip(s) ==
  LET keep == {i \in 1..Len(s) : ~IsSpace(s[i])}
  IN  IF keep = {} THEN <<>>
      ELSE SubSeq(s, Min(keep), CHOOSE m \in keep : \A k \in keep : k <= m)

\* re.sub(r'\s+', ' ', s)
RECURSIVE CollapseSpaces(_)
CollapseSpaces(s) ==
  IF s = <<>> THEN <<>>
  ELSE IF IsSpace(s[1])
       THEN IF Len(s) > 1 /\ IsSpace(s[2])
            THEN CollapseSpaces(Tail(s))
            ELSE <<" ">> \o CollapseSpaces(Tail(s))
       ELSE <<s[1]>> \o CollapseSpaces(Tail(s))

\* int(digits)
RECURSIVE IntOf(_)
IntOf(ds) ==
  IF ds = <<>> THEN 0
  ELSE 10 * IntOf(SubSeq(ds, 1, Len(ds) - 1))
       + ((CHOOSE i \in DOMAIN DigitChars : DigitChars[i] = ds[Len(ds)]) - 1)

\* str(n) for n >= 0
RECURSIVE StrOf(_)
StrOf(n) ==
  IF n < 10 THEN <<DigitChars[n + 1]>>
  ELSE StrOf(n \div 10) \o <<DigitChars[(n % 10) + 1]>>

(***************************************************************************)
(* Regular expressions: a pattern is a sequence of elements                *)
(*   Cls(S)  one character of the set S                                    *)
(*   Digs    (\d+), a capturing group                                      *)
(*   Ws      \s*                                                           *)
(* In every pattern of the program a repetition is followed by an element  *)
(* that cannot match a character of the repetition, so the greedy match is *)
(* the only one.                                                           *)
(***************************************************************************)
Cls(S) == [k |-> "cls", set |-> S]
Lit(c) == Cls({c})
Digs   == [k |-> "digits", set |-> {}]
Ws     == [k |-> "ws", set |-> {}]

NoMatchRe == [ok |-> FALSE, groups |-> <<>>, start |-> 0, end |-> 0]

\* length of the longest run of characters of the set S that starts at s[i]
RECURSIVE RunLen(_, _, _)
RunLen(s, i, S) ==
  IF i <= Len(s) /\ s[i] \in S THEN 1 + RunLen(s, i + 1, S) ELSE 0

CharIn(c, S, ic) ==
  IF ic THEN LowerChar(c) \in {LowerChar(x) : x \in S} ELSE c \in S

\* match pattern elements k.. against s from position i
RECURSIVE MatchFrom(_, _, _, _, _)
MatchFrom(pat, k, s, i, ic) ==
  IF k > Len(pat) THEN [ok |-> TRUE, groups |-> <<>>, start |-> i, end |-> i]
  ELSE
    LET el == pat[k] IN
    IF el.k = "cls" THEN
      IF i <= Len(s) /\ CharIn(s[i], el.set, ic)
      THEN MatchFrom(pat, k + 1, s, i + 1, ic)
      ELSE NoMatchRe
    ELSE IF el.k = "digits" THEN
      LET n == RunLen(s, i, DigitSet) IN
      IF n = 0 THEN NoMatchRe
      ELSE LET r == MatchFrom(pat, k + 1, s, i + n, ic) IN
           IF r.ok
           THEN [r EXCEPT !.groups = <<SubSeq(s, i, i + n - 1)>> \o r.groups]
           ELSE NoMatchRe
    ELSE MatchFrom(pat, k + 1, s, i + RunLen(s, i, SpaceSet), ic)

\* the leftmost match that starts at position i or later
RECURSIVE SearchFrom(_, _, _, _)
SearchFrom(pat, s, i, ic) ==
  IF i > Len(s) + 1 THEN NoMatchRe
  ELSE LET m == MatchFrom(pat, 1, s, i, ic) IN
       IF m.ok THEN [m EXCEPT !.start = i] ELSE SearchFrom(pat, s, i + 1, ic)

\* re.search(pat, s, flags): the leftmost match
ReSearch(pat, s, ic) == SearchFrom(pat, s, 1, ic)

\* match.group(0)
Group0(s, m) == SubSeq(s, m.start, m.end - 1)

\* variant: the E1 pattern tried first
EPISODE_PATTERNS_Reordered ==
  << <<Cls({"E","e"}), Digs>>,
     <<Cls({"S","s"}), Digs, Cls({"E","e"}), Digs>>,
     <<Digs, Lit("x"), Digs>>,
     <<Cls({"E","e"}), Lit("p"), Lit("i"), Lit("s"), Lit("o"), Lit("d"), Lit("e"), Ws, Digs>>,
     <<Cls({"E","e"}), Lit("p"), Ws, Digs>>,
     <<Digs, Lit("."), Ws, Digs>> >>

EPISODE_PATTERNS ==
  << <<Cls({"S","s"}), Digs, Cls({"E","e"}), Digs>>,
     <<Digs, Lit("x"), Digs>>,
     <<Cls({"E","e"}), Lit("p"), Lit("i"), Lit("s"), Lit("o"), Lit("d"), Lit("e"), Ws, Digs>>,
     <<Cls({"E","e"}), Lit("p"), Ws, Digs>>,
     <<Cls({"E","e"}), Digs>>,
     <<Digs, Lit("."), Ws, Digs>> >>

SeasonPattern == <<Lit("s"), Lit("e"), Lit("a"), Lit("s"), Lit("o"), Lit("n"), Ws, Digs>>

AnyNumberPattern == <<Digs>>

(***************************************************************************)
(* SeriesManager._normalize                                                *)
(***************************************************************************)
_normalize(text) ==
  IF text = <<>> THEN <<>>
  ELSE
    LET t1 == Flatten([i \in 1..Len(text) |-> UnidecodeChar(text[i])])
        t2 == Lower(t1)
        t3 == ReplaceChar(t2, "-", " ")
        t4 == ReplaceChar(t3, "_", " ")
        t5 == CollapseSpaces(t4)
    IN  Strip(t5)

(***************************************************************************)
(* SeriesManager._detect_episode_info                                      *)
(***************************************************************************)
\* (None, None)
NoEpisode == <<>>

\* cleaned = norm_filename.replace(norm_series, '').strip()
CleanedOf(filename, series_name) ==
  Strip(ReplaceAll(_normalize(filename), _normalize(series_name)))

\* the loop over EPISODE_PATTERNS from pattern k on: first pattern that matches
RECURSIVE FirstPatternMatch(_, _)
FirstPatternMatch(cleaned, k) ==
  IF k > Len(EPISODE_PATTERNS) THEN NoEpisode
  ELSE LET m == ReSearch(EPISODE_PATTERNS[k], cleaned, FALSE) IN
       IF m.ok
       THEN IF Len(m.groups) = 2
            THEN <<IntOf(m.groups[1]), IntOf(m.groups[2])>>
            ELSE <<1, IntOf(m.groups[1])>>
       ELSE FirstPatternMatch(cleaned, k + 1)

\* the 'season N' fallback
SeasonFallback(cleaned) ==
  IF Contains(cleaned, <<"s","e","a","s","o","n">>) \/ Contains(cleaned, <<"s","e","r","i","e">>)
  THEN LET sm == ReSearch(SeasonPattern, cleaned, FALSE) IN
       IF sm.ok
       THEN LET em == ReSearch(AnyNumberPattern, ReplaceAll(cleaned, Group0(cleaned, sm)), FALSE) IN
            IF em.ok THEN <<IntOf(sm.groups[1]), IntOf(em.groups[1])>> ELSE NoEpisode
       ELSE NoEpisode
  ELSE NoEpisode

DetectOn(cleaned) ==
  LET r == FirstPatternMatch(cleaned, 1) IN
  IF r # NoEpisode THEN r ELSE SeasonFallback(cleaned)

_detect_episode_info(filename, series_name) ==
  DetectOn(CleanedOf(filename, series_name))

(***************************************************************************)
(* SeriesManager._is_likely_episode                                        *)
(***************************************************************************)
EpisodeKeywords ==
  << <<"e","p","i","s","o","d","e">>, <<"s","e","a","s","o","n">>,
     <<"s","e","r","i","e","s">>, <<"e","p">>,
     <<"c","o","m","p","l","e","t","e">>, <<"s","e","r","i","e">>,
     <<"d","i","s","k">> >>

_is_likely_episode(filename, series_name) ==
  LET norm_filename == _normalize(filename)
      norm_series   == _normalize(series_name)
  IN  /\ Contains(norm_filename, norm_series)
      /\ \/ \E k \in DOMAIN EPISODE_PATTERNS : ReSearch(EPISODE_PATTERNS[k], filename, TRUE).ok
         \/ \E k \in DOMAIN EpisodeKeywords : Contains(norm_filename, EpisodeKeywords[k])

(***************************************************************************)
(* SeriesManager._safe_filename                                            *)
(***************************************************************************)
_safe_filename(name) ==
  LET safe == [i \in 1..Len(name) |->
                 IF IsWord(name[i]) \/ name[i] \in {"-", "_", ".", " "}
                 THEN name[i] ELSE "_"]
  IN  ReplaceChar(Lower(safe), " ", "_")

(***************************************************************************)
(* JSON values and json.dumps(obj, indent=2) / json.loads                  *)
(*   a JSON string is JStr(text), an object JObj(keys, vals) with the keys *)
(*   in document order, an array JArr(items).  The file text is a sequence *)
(*   of characters; a \uXXXX escape is the three characters \, u and the   *)
(*   code of the character (one symbol standing for the four hex digits).  *)
(***************************************************************************)
JStr(s)          == [t |-> "str", s |-> s]
JObj(keys, vals) == [t |-> "obj", keys |-> keys, vals |-> vals]
JArr(items)      == [t |-> "arr", items |-> items]

\* Python None
NoneVal == [t |-> "none"]

\* an exception that reaches the caller
RaisedVal == [t |-> "raised"]

\* the hex code of a non-ASCII character, and back
CodeOf(c) == IF c = "é" THEN "00e9" ELSE "00c9"
CharOfCode(x) == IF x = "00e9" THEN "é" ELSE "É"
IsCode(x) == x \in {"00e9", "00c9"}

\* json.encoder.py_encode_basestring_ascii on one character
EscapeChar(c) ==
  IF c = "\"" THEN <<"\\", "\"">>
  ELSE IF c = "\\" THEN <<"\\", "\\">>
  ELSE IF c = "\n" THEN <<"\\", "n">>
  ELSE IF c = "\t" THEN <<"\\", "t">>
  ELSE IF c \in NonAscii THEN <<"\\", "u", CodeOf(c)>>
  ELSE <<c>>

EncodeStr(s) == <<"\"">> \o Flatten([i \in 1..Len(s) |-> EscapeChar(s[i])]) \o <<"\"">>

\* newline followed by the indentation of a nesting level (indent=2)
NewlineIndent(level) == <<"\n">> \o [i \in 1..(2 * level) |-> " "]

RECURSIVE Encode(_, _)
RECURSIVE EncodeMembers(_, _, _, _)
RECURSIVE EncodeItems(_, _, _)
\* json.dumps(v, indent=2) of a value at a nesting level
Encode(v, level) ==
  IF v.t = "str" THEN EncodeStr(v.s)
  ELSE IF v.t = "obj" THEN
    IF v.keys = <<>> THEN <<"{", "}">>
    ELSE <<"{">> \o EncodeMembers(v.keys, v.vals, 1, level + 1)
                \o NewlineIndent(level) \o <<"}">>
  ELSE
    IF v.items = <<>> THEN <<"[", "]">>
    ELSE <<"[">> \o EncodeItems(v.items, 1, level + 1)
                \o NewlineIndent(level) \o <<"]">>

EncodeMembers(keys, vals, k, level) ==
  IF k > Len(keys) THEN <<>>
  ELSE (IF k > 1 THEN <<",">> ELSE <<>>)
       \o NewlineIndent(level) \o EncodeStr(keys[k]) \o <<":", " ">>
       \o Encode(vals[k], level) \o EncodeMembers(keys, vals, k + 1, level)

EncodeItems(items, k, level) ==
  IF k > Len(items) THEN <<>>
  ELSE (IF k > 1 THEN <<",">> ELSE <<>>)
       \o NewlineIndent(level) \o Encode(items[k], level)
       \o EncodeItems(items, k + 1, level)

\* json.decoder: whitespace between tokens
JsonWs == {" ", "\t", "\n", "\r"}

SkipWs(t, i) == i + RunLen(t, i, JsonWs)

ParseFail == [ok |-> FALSE, v |-> NoneVal, next |-> 0]

\* json.decoder.scanstring: t[i] is the first character after the opening quote
RECURSIVE ScanString(_, _, _)
ScanString(t, i, acc) ==
  IF i > Len(t) THEN ParseFail
  ELSE IF t[i] = "\"" THEN [ok |-> TRUE, v |-> JStr(acc), next |-> i + 1]
  ELSE IF t[i] \in {"\n", "\t", "\r"} THEN ParseFail
  ELSE IF t[i] = "\\" THEN
    IF i + 1 > Len(t) THEN ParseFail
    ELSE IF t[i + 1] \in {"\"", "\\"} THEN ScanString(t, i + 2, Append(acc, t[i + 1]))
    ELSE IF t[i + 1] = "n" THEN ScanString(t, i + 2, Append(acc, "\n"))
    ELSE IF t[i + 1] = "t" THEN ScanString(t, i + 2, Append(acc, "\t"))
    ELSE IF t[i + 1] = "u" /\ i + 2 <= Len(t) /\ IsCode(t[i + 2])
         THEN ScanString(t, i + 3, Append(acc, CharOfCode(t[i + 2])))
    ELSE ParseFail
  ELSE ScanString(t, i + 1, Append(acc, t[i]))

RECURSIVE ParseValue(_, _)
RECURSIVE ParseMembers(_, _, _, _)
RECURSIVE ParseItems(_, _, _)
\* json.scanner.scan_once at position i (strings, objects and arrays)
ParseValue(t, i) ==
  IF i > Len(t) THEN ParseFail
  ELSE IF t[i] = "\"" THEN ScanString(t, i + 1, <<>>)
  ELSE IF t[i] = "{" THEN
    LET j == SkipWs(t, i + 1) IN
    IF j <= Len(t) /\ t[j] = "}"
    THEN [ok |-> TRUE, v |-> JObj(<<>>, <<>>), next |-> j + 1]
    ELSE ParseMembers(t, j, <<>>, <<>>)
  ELSE IF t[i] = "[" THEN
    LET j == SkipWs(t, i + 1) IN
    IF j <= Len(t) /\ t[j] = "]"
    THEN [ok |-> TRUE, v |-> JArr(<<>>), next |-> j + 1]
    ELSE ParseItems(t, j, <<>>)
  ELSE ParseFail

\* json.decoder.JSONObject: the members from the key at position i on
ParseMembers(t, i, keys, vals) ==
  IF i > Len(t) \/ t[i] # "\"" THEN ParseFail
  ELSE
    LET key == ScanString(t, i + 1, <<>>) IN
    IF ~key.ok THEN ParseFail
    ELSE
      LET c == SkipWs(t, key.next) IN
      IF c > Len(t) \/ t[c] # ":" THEN ParseFail
      ELSE
        LET val == ParseValue(t, SkipWs(t, c + 1)) IN
        IF ~val.ok THEN ParseFail
        ELSE
          LET e == SkipWs(t, val.next) IN
          IF e > Len(t) THEN ParseFail
          ELSE IF t[e] = "}"
               THEN [ok |-> TRUE,
                     v |-> JObj(Append(keys, key.v.s), Append(vals, val.v)),
                     next |-> e + 1]
          ELSE IF t[e] = ","
               THEN ParseMembers(t, SkipWs(t, e + 1),
                                 Append(keys, key.v.s), Append(vals, val.v))
          ELSE ParseFail

\* json.decoder.JSONArray: the items from position i on
ParseItems(t, i, items) ==
  LET val == ParseValue(t, i) IN
  IF ~val.ok THEN ParseFail
  ELSE
    LET e == SkipWs(t, val.next) IN
    IF e > Len(t) THEN ParseFail
    ELSE IF t[e] = "]"
         THEN [ok |-> TRUE, v |-> JArr(Append(items, val.v)), next |-> e + 1]
    ELSE IF t[e] = ","
         THEN ParseItems(t, SkipWs(t, e + 1), Append(items, val.v))
    ELSE ParseFail

\* json.loads(text): one value, nothing but whitespace around it
JsonLoads(text) ==
  LET r == ParseValue(text, SkipWs(text, 1)) IN
  IF r.ok /\ SkipWs(text, r.next) = Len(text) + 1 THEN r ELSE ParseFail

(***************************************************************************)
(* The search collaborator (api_function) and raw result entries           *)
(*   A raw entry is the dict built from one <file> element; has_size tells *)
(*   whether the 'size' key is present.  A response is well-formed XML     *)
(*   with status OK ("ok"), well-formed XML with another or no status      *)
(*   ("status"), or content that is not XML ("malformed").                 *)
(***************************************************************************)
RawEntry(name, ident, has_size, size, type) ==
  [name |-> name, ident |-> ident, has_size |-> has_size, size |-> size, type |-> type]

OkResponse(entries) == [kind |-> "ok", files |-> entries]
StatusResponse      == [kind |-> "status", files |-> <<>>]
MalformedResponse   == [kind |-> "malformed", files |-> <<>>]

\* SeriesManager._perform_search on the collaborator's response:
\* ET.fromstring raises on content that is not XML; a status other than OK
\* leaves the result list empty
_perform_search(response) ==
  IF response.kind = "malformed" THEN [raised |-> TRUE, results |-> <<>>]
  ELSE IF response.kind = "ok" THEN [raised |-> FALSE, results |-> response.files]
  ELSE [raised |-> FALSE, results |-> <<>>]

(***************************************************************************)
(* SeriesManager.search_series                                             *)
(***************************************************************************)
RemoveChar(s, c) == SelectSeq(s, LAMBDA x : x # c)

\* the list search_queries
search_queries(series_name) ==
  LET norm_name == _normalize(series_name) IN
  << series_name,
     norm_name,
     RemoveChar(norm_name, " "),
     ReplaceChar(norm_name, " ", "_"),
     ReplaceChar(norm_name, " ", "-"),
     series_name \o <<" ","s","e","a","s","o","n">>,
     series_name \o <<" ","s","0","1">>,
     series_name \o <<" ","e","p","i","s","o","d","e">>,
     norm_name \o <<" ","s","e","a","s","o","n">>,
     norm_name \o <<" ","s","0","1">>,
     norm_name \o <<" ","e","p","i","s","o","d","e">> >>

InSeq(x, seq) == \E i \in DOMAIN seq : seq[i] = x

\* variant: all_results.insert(0, result) in place of append
RECURSIVE MergeResultsPrepend(_, _, _)
MergeResultsPrepend(all_results, results, series_name) ==
  IF results = <<>> THEN all_results
  ELSE LET merged == MergeResultsPrepend(all_results,
                                         SubSeq(results, 1, Len(results) - 1),
                                         series_name)
           result == results[Len(results)]
       IN  IF ~InSeq(result, merged) /\ _is_likely_episode(result.name, series_name)
           THEN <<result>> \o merged ELSE merged

\* the inner loop: append each result that is new and likely an episode
\* (the list after the loop has gone through results: the list after all but
\* the last result, then the last result's turn)
RECURSIVE MergeResults(_, _, _)
MergeResults(all_results, results, series_name) ==
  IF results = <<>> THEN all_results
  ELSE LET merged == MergeResults(all_results, SubSeq(results, 1, Len(results) - 1),
                                  series_name)
           result == results[Len(results)]
       IN  IF ~InSeq(result, merged) /\ _is_likely_episode(result.name, series_name)
           THEN Append(merged, result) ELSE merged

\* the loop over search_queries after its first k iterations; responses[k] is
\* what the collaborator answers to query k.  An exception of _perform_search
\* leaves the loop and search_series.
RECURSIVE RunQueries(_, _, _, _)
RunQueries(queries, series_name, responses, k) ==
  IF k = 0
  THEN [raised |-> FALSE, issued |-> 0, all_results |-> <<>>]
  ELSE LET before == RunQueries(queries, series_name, responses, k - 1) IN
       IF before.raised THEN before
       ELSE LET r == _perform_search(responses[k]) IN
            IF r.raised
            THEN [raised |-> TRUE, issued |-> k, all_results |-> before.all_results]
            ELSE [raised |-> FALSE, issued |-> k,
                  all_results |-> MergeResults(before.all_results, r.results,
                                               series_name)]

\* the dict appended to a bucket: name, ident, item.get('size', '0')
StreamOf(item) ==
  [name |-> item.name, ident |-> item.ident,
   size |-> IF item.has_size THEN item.size ELSE <<"0">>]

\* position of a key in a dict (kept as a list of entries in insertion order)
KeyIndex(d, key) ==
  IF \E i \in DOMAIN d : d[i].key = key
  THEN CHOOSE i \in DOMAIN d : d[i].key = key
  ELSE 0

\* episodes[season][episode].append(stream), creating the dicts and the list
AddStream(episodes, season, episode, stream) ==
  LET si == KeyIndex(episodes, season)
      e1 == IF si = 0 THEN Append(episodes, [key |-> season, eps |-> <<>>]) ELSE episodes
      sj == IF si = 0 THEN Len(e1) ELSE si
      ei == KeyIndex(e1[sj].eps, episode)
      e2 == IF ei = 0
            THEN [e1 EXCEPT ![sj].eps = Append(@, [key |-> episode, files |-> <<>>])]
            ELSE e1
      ej == IF ei = 0 THEN Len(e2[sj].eps) ELSE ei
  IN  [e2 EXCEPT ![sj].eps[ej].files = Append(@, stream)]

\* the loop that classifies all_results into the dict episodes (the dict
\* after all but the last item, then the last item's turn)
RECURSIVE Classify(_, _)
Classify(all_results, series_name) ==
  IF all_results = <<>> THEN <<>>
  ELSE LET episodes == Classify(SubSeq(all_results, 1, Len(all_results) - 1),
                                series_name)
           item == all_results[Len(all_results)]
           info == _detect_episode_info(item.name, series_name)
       IN  IF info # NoEpisode
           THEN AddStream(episodes, StrOf(info[1]), StrOf(info[2]), StreamOf(item))
           ELSE episodes

\* variant: main = files[-1]
MainIndexLast(files) == Len(files)

\* main = files[0]: the (1-based) position of the dict chosen as the record
MainIndex(files) == 1

\* main = files[0]; main['streams'] = files
\* The record stored under seasons[s][e] is the dict rec; streams is the list
\* files; self is the position in streams of the element that is the very
\* same object as rec (0 when rec is not an element of its own streams list).
EpisodeRecord(files) ==
  [rec |-> files[MainIndex(files)], streams |-> files, self |-> MainIndex(files)]

\* the conversion of episodes into series_data['seasons']
BuildSeasons(episodes) ==
  [s \in DOMAIN episodes |->
     [key |-> episodes[s].key,
      eps |-> [e \in DOMAIN episodes[s].eps |->
                 [key |-> episodes[s].eps[e].key,
                  ep  |-> EpisodeRecord(episodes[s].eps[e].files)]]]]

NoSeriesData == [name |-> <<>>, last_updated |-> <<>>, seasons |-> <<>>]

\* search_series up to the call of _save_series_data: date is
\* xbmc.getInfoLabel('System.Date'), responses the collaborator's answers
search_series(series_name, responses, date) ==
  LET queries == search_queries(series_name)
      q == RunQueries(queries, series_name, responses, Len(queries)) IN
  IF q.raised
  THEN [raised |-> TRUE, issued |-> q.issued, series_data |-> NoSeriesData]
  ELSE [raised |-> FALSE, issued |-> q.issued,
        series_data |-> [name |-> series_name,
                         last_updated |-> date,
                         seasons |-> BuildSeasons(Classify(q.all_results, series_name))]]

(***************************************************************************)
(* The catalog store                                                       *)
(***************************************************************************)
KeyName         == <<"n","a","m","e">>
KeyIdent        == <<"i","d","e","n","t">>
KeySize         == <<"s","i","z","e">>
KeyStreams      == <<"s","t","r","e","a","m","s">>
KeyLastUpdated  == <<"l","a","s","t","_","u","p","d","a","t","e","d">>
KeySeasons      == <<"s","e","a","s","o","n","s">>
JsonExt         == <<".","j","s","o","n">>

\* the object graph has a cycle: some record is an element of its own
\* streams list (json.dumps finds it among its markers)
Circular(series_data) ==
  \E s \in DOMAIN series_data.seasons :
    \E e \in DOMAIN series_data.seasons[s].eps :
      series_data.seasons[s].eps[e].ep.self # 0

JsonOfStream(st) ==
  JObj(<<KeyName, KeyIdent, KeySize>>, <<JStr(st.name), JStr(st.ident), JStr(st.size)>>)

JsonOfEpisode(ep) ==
  JObj(<<KeyName, KeyIdent, KeySize, KeyStreams>>,
       <<JStr(ep.rec.name), JStr(ep.rec.ident), JStr(ep.rec.size),
         JArr([i \in DOMAIN ep.streams |-> JsonOfStream(ep.streams[i])])>>)

JsonOfSeason(eps) ==
  JObj([e \in DOMAIN eps |-> eps[e].key], [e \in DOMAIN eps |-> JsonOfEpisode(eps[e].ep)])

\* the JSON value of an acyclic series_data
JsonOfCatalog(series_data) ==
  JObj(<<KeyName, KeyLastUpdated, KeySeasons>>,
       <<JStr(series_data.name), JStr(series_data.last_updated),
         JObj([s \in DOMAIN series_data.seasons |-> series_data.seasons[s].key],
              [s \in DOMAIN series_data.seasons |-> JsonOfSeason(series_data.seasons[s].eps)])>>)

\* json.dumps(series_data, indent=2): ValueError on a circular reference
JsonDumps(series_data) ==
  IF Circular(series_data)
  THEN [raised |-> TRUE, text |-> <<>>]
  ELSE [raised |-> FALSE, text |-> Encode(JsonOfCatalog(series_data), 0)]

\* os.path.join(series_db_path, safe_name + '.json'), relative to the store
FilePath(series_name) == _safe_filename(series_name) \o JsonExt

\* the store with the file at path holding text
WithFile(fs, path, text) ==
  [f \in DOMAIN fs \cup {path} |-> IF f = path THEN text ELSE fs[f]]

\* _save_series_data: io.open(path, 'w') creates or truncates the file, then
\* json.dumps runs; its exception is caught after the file has been opened,
\* so the file stays empty
_save_series_data(fs, series_name, series_data) ==
  LET d == JsonDumps(series_data) IN
  WithFile(fs, FilePath(series_name), IF d.raised THEN <<>> ELSE d.text)

\* variant: the parse failure is not caught
load_series_data_NoCatch(fs, series_name) ==
  LET path == FilePath(series_name) IN
  IF path \notin DOMAIN fs THEN NoneVal
  ELSE LET r == JsonLoads(fs[path]) IN
       IF r.ok THEN r.v ELSE RaisedVal

\* variant: an empty dict instead of None for a missing file
load_series_data_EmptyDefault(fs, series_name) ==
  LET path == FilePath(series_name) IN
  IF path \notin DOMAIN fs THEN JObj(<<>>, <<>>)
  ELSE LET r == JsonLoads(fs[path]) IN
       IF r.ok THEN r.v ELSE NoneVal

\* load_series_data: None when the file does not exist or does not parse
load_series_data(fs, series_name) ==
  LET path == FilePath(series_name) IN
  IF path \notin DOMAIN fs THEN NoneVal
  ELSE LET r == JsonLoads(fs[path]) IN
       IF r.ok THEN r.v ELSE NoneVal

\* filename.endswith(suffix)
EndsWith(s, suffix) ==
  Len(s) >= Len(suffix) /\ SubSeq(s, Len(s) - Len(suffix) + 1, Len(s)) = suffix

\* os.path.splitext(filename)[0]: the extension starts at the last dot,
\* unless only dots precede it
SplitextRoot(filename) ==
  LET dots == {i \in DOMAIN filename : filename[i] = "."} IN
  IF dots = {} THEN filename
  ELSE LET dotIndex == CHOOSE i \in dots : \A j \in dots : j <= i IN
       IF \E i \in 1..(dotIndex - 1) : filename[i] # "."
       THEN SubSeq(filename, 1, dotIndex - 1)
       ELSE filename

\* get_all_series: one entry per *.json file (os.listdir gives no order)
get_all_series(fs) ==
  { [name      |-> ReplaceChar(SplitextRoot(f), "_", " "),
     filename  |-> f,
     safe_name |-> SplitextRoot(f)] : f \in {g \in DOMAIN fs : EndsWith(g, JsonExt)} }

(***************************************************************************)
(* State                                                                   *)
(***************************************************************************)
VARIABLES
  db_files,      \* series_db directory: file name -> text of the file
  db_written,    \* history: file name -> how the file got its present content
  searched,      \* history: the series names passed to search_series so far
  op,            \* the last call: "init", "search", "load", "list", "crash", "garble"
  arg,           \* its series_name argument
  api_responses, \* search: what the collaborator answered to each query
  search_ret,    \* search: [raised, issued, series_data]
  load_ret,      \* load: the value returned (NoneVal for None)
  list_ret,      \* list: the entries returned
  det_filename,  \* detection: the filename argument
  det_series,    \* detection: the series_name argument
  det_cleaned,   \* detection: the local variable cleaned
  det_result,    \* detection: the pair returned
  det_pc,        \* detection: "ready" or "done"
  pc,            \* concurrent searches: position of each process
  proc_data,     \* concurrent searches: series_data of each process
  proc_buf,      \* concurrent searches: text in the file object's buffer
  finished       \* concurrent searches: processes in the order their save ended

storeVars == <<db_files, db_written, searched, op, arg, api_responses,
               search_ret, load_ret, list_ret>>

detVars == <<det_filename, det_series, det_cleaned, det_result, det_pc>>

concVars == <<pc, proc_data, proc_buf, finished>>

vars == <<db_files, db_written, searched, op, arg, api_responses,
          search_ret, load_ret, list_ret,
          det_filename, det_series, det_cleaned, det_result, det_pc,
          pc, proc_data, proc_buf, finished>>

(***************************************************************************)
(* Bounds and inputs                                                       *)
(***************************************************************************)
\* number of entries in search_queries
NumQueries == 11

\* longest list of entries in one collaborator response
MaxResp == 2

\* a crash during the write leaves at most MaxCut characters of the text,
\* or all but at most MaxCut characters
MaxCut == 1

\* a detection filename is made of at most MaxFrags fragments
MaxFrags == 3

Procs == {1, 2}

DateMon  == <<"M","o","n">>
DateTues == <<"T","u","e","s">>

NameEmpty == <<>>
NameAb    == <<"A","b">>
Nameab    == <<"a","b">>
NameZz    == <<"Z","z">>
NameOdd   == <<"É","\"">>

SeriesNames == {NameEmpty, NameAb, Nameab, NameOdd}

LoadNames == SeriesNames \cup {NameZz}

EntryEp3   == RawEntry(<<"A","b"," ","E","p","3">>, <<"i","1">>, TRUE, <<"5">>, <<"v">>)
EntryEp3b  == RawEntry(<<"A","b"," ","E","p","3">>, <<"i","1">>, TRUE, <<"5">>, <<"w">>)
EntryEpi3  == RawEntry(<<"a","b"," ","e","p","i","s","o","d","e"," ","3">>, <<"i","2">>, FALSE, <<>>, <<"v">>)
EntryS2E1  == RawEntry(<<"A","B"," ","S","2","E","1">>, <<"i","3">>, TRUE, <<"7">>, <<"v">>)
EntryOther == RawEntry(<<"Z","z"," ","e","9">>, <<"i","4">>, TRUE, <<"1">>, <<"v">>)
EntryWhole == RawEntry(<<"a","b"," ","c","o","m","p","l","e","t","e">>, <<"i","5">>, TRUE, <<"9">>, <<"v">>)

EntryPool == {EntryEp3, EntryEp3b, EntryEpi3, EntryS2E1, EntryOther, EntryWhole}

\* lists of at most n entries of the pool
EntryLists(n) == UNION {[1..k -> EntryPool] : k \in 0..n}

\* the collaborator answers r to query i and OK with the list A to the others
ResponsesOf(A, i, r) ==
  [k \in 1..NumQueries |-> IF k = i THEN r ELSE OkResponse(A)]

\* the collaborator behaviours of the classification runs
SearchResponses ==
  { ResponsesOf(A, i, r) :
      A \in EntryLists(MaxResp),
      i \in 1..NumQueries,
      r \in {StatusResponse, MalformedResponse, OkResponse(<<EntryEpi3>>),
             OkResponse(<<EntryS2E1>>), OkResponse(<<EntryEp3b>>)} }

\* the series names of the classification runs
SearchNames == {NameEmpty, NameAb}

\* the collaborator behaviours of the store runs
StoreResponses ==
  { ResponsesOf(<<>>, 1, OkResponse(<<>>)),
    ResponsesOf(<<EntryEp3, EntryEpi3>>, 1, StatusResponse),
    ResponsesOf(<<EntryEp3>>, 2, MalformedResponse) }

\* file content that no save wrote
Garbage == { <<"{","\"","a","\"","}">> }

DetectFragments ==
  { <<"S","0","3","E","0","7">>, <<"s","0","3","e","0","7">>, <<"1">>, <<" ">>,
    <<"e","2">>, <<"X">>, <<"s","e","a","s","o","n"," ","2">>, <<".">>, <<"-">> }

DetectFilenames ==
  { Flatten(fs) : fs \in UNION {[1..k -> DetectFragments] : k \in 0..MaxFrags} }

DetectSeries == { <<>>, <<"e","2">>, <<"X">>, <<"É","-">> }

(***************************************************************************)
(* Initial state                                                           *)
(***************************************************************************)
NoSearchRet == [raised |-> FALSE, issued |-> 0, series_data |-> NoSeriesData]

StoreInit ==
  /\ db_files = <<>>
  /\ db_written = <<>>
  /\ searched = {}
  /\ op = "init"
  /\ arg = <<>>
  /\ api_responses = <<>>
  /\ search_ret = NoSearchRet
  /\ load_ret = NoneVal
  /\ list_ret = {}

DetInit ==
  /\ det_filename = <<>>
  /\ det_series = <<>>
  /\ det_cleaned = <<>>
  /\ det_result = NoEpisode
  /\ det_pc = "done"

ConcInit ==
  /\ pc = [p \in Procs |-> "idle"]
  /\ proc_data = [p \in Procs |-> NoSeriesData]
  /\ proc_buf = [p \in Procs |-> <<>>]
  /\ finished = <<>>

Init == StoreInit /\ DetInit /\ ConcInit

(***************************************************************************)
(* Store operations                                                        *)
(***************************************************************************)
\* search_series on the inputs of the store runs, computed once
StoreSearchTable ==
  [n \in SeriesNames |-> [r \in StoreResponses |-> search_series(n, r, DateMon)]]

\* search_series(series_name, responses, date), looked up where tabulated
SearchResult(series_name, responses, date) ==
  IF series_name \in SeriesNames /\ responses \in StoreResponses /\ date = DateMon
  THEN StoreSearchTable[series_name][responses]
  ELSE search_series(series_name, responses, date)

\* search_series(series_name, api_function, token): the queries, the
\* classification and the save; an exception of a query leaves the store as
\* it was
SearchCall(series_name, responses, date) ==
  \E r \in {SearchResult(series_name, responses, date)} :
  /\ op' = "search"
  /\ arg' = series_name
  /\ api_responses' = responses
  /\ search_ret' = r
  /\ searched' = searched \cup {series_name}
  /\ db_files' = IF r.raised THEN db_files
                 ELSE _save_series_data(db_files, series_name, r.series_data)
  /\ db_written' = IF r.raised THEN db_written
                   ELSE WithFile(db_written, FilePath(series_name),
                                 [kind |-> "saved", series_data |-> r.series_data])
  /\ load_ret' = NoneVal
  /\ list_ret' = {}
  /\ UNCHANGED <<detVars, concVars>>

\* the prefixes a crash during file.write / file.close can leave
CrashCuts(text) ==
  {c \in 0..(Len(text) - 1) : c <= MaxCut \/ c >= Len(text) - MaxCut}

\* search_series whose process dies while the text is being written
CrashDuringSave(series_name, responses, date) ==
  \E r \in {SearchResult(series_name, responses, date)} :
    /\ ~r.raised
    /\ \E d \in {JsonDumps(r.series_data)} :
         /\ ~d.raised
         /\ \E cut \in CrashCuts(d.text) :
              db_files' = WithFile(db_files, FilePath(series_name), SubSeq(d.text, 1, cut))
    /\ db_written' = WithFile(db_written, FilePath(series_name),
                              [kind |-> "truncated", series_data |-> r.series_data])
    /\ op' = "crash"
    /\ arg' = series_name
    /\ api_responses' = <<>>
    /\ search_ret' = NoSearchRet
    /\ searched' = searched \cup {series_name}
    /\ load_ret' = NoneVal
    /\ list_ret' = {}
    /\ UNCHANGED <<detVars, concVars>>

\* a catalog file is overwritten from outside with text that is not JSON
Garble(path, text) ==
  /\ path \in DOMAIN db_files
  /\ db_files' = WithFile(db_files, path, text)
  /\ db_written' = WithFile(db_written, path,
                            [kind |-> "garbage", series_data |-> NoSeriesData])
  /\ op' = "garble"
  /\ arg' = <<>>
  /\ api_responses' = <<>>
  /\ search_ret' = NoSearchRet
  /\ load_ret' = NoneVal
  /\ list_ret' = {}
  /\ UNCHANGED <<searched, detVars, concVars>>

\* load_series_data(series_name)
LoadCall(series_name) ==
  /\ op' = "load"
  /\ arg' = series_name
  /\ load_ret' = load_series_data(db_files, series_name)
  /\ api_responses' = <<>>
  /\ search_ret' = NoSearchRet
  /\ list_ret' = {}
  /\ UNCHANGED <<db_files, db_written, searched, detVars, concVars>>

\* get_all_series()
ListCall ==
  /\ op' = "list"
  /\ arg' = <<>>
  /\ list_ret' = get_all_series(db_files)
  /\ api_responses' = <<>>
  /\ search_ret' = NoSearchRet
  /\ load_ret' = NoneVal
  /\ UNCHANGED <<db_files, db_written, searched, detVars, concVars>>

Search == \E n \in SeriesNames, r \in StoreResponses : SearchCall(n, r, DateMon)

Crash == \E n \in SeriesNames, r \in StoreResponses : CrashDuringSave(n, r, DateMon)

Corrupt == \E f \in DOMAIN db_files, g \in Garbage : Garble(f, g)

Load == \E n \in LoadNames : LoadCall(n)

Next == Search \/ Crash \/ Corrupt \/ Load \/ ListCall

Spec == Init /\ [][Next]_vars

(***************************************************************************)
(* One search on an empty store, over the collaborator behaviours          *)
(***************************************************************************)
SearchOnce ==
  /\ op = "init"
  /\ \E n \in SearchNames, r \in SearchResponses : SearchCall(n, r, DateMon)

NextSearch == SearchOnce

SpecSearch == Init /\ [][NextSearch]_vars

(***************************************************************************)
(* Detection as a function of its two arguments                            *)
(***************************************************************************)
InitDetect ==
  /\ StoreInit
  /\ ConcInit
  /\ det_filename \in DetectFilenames
  /\ det_series \in DetectSeries
  /\ det_cleaned = <<>>
  /\ det_result = NoEpisode
  /\ det_pc = "ready"

Detect ==
  /\ det_pc = "ready"
  /\ det_cleaned' = CleanedOf(det_filename, det_series)
  /\ det_result' = _detect_episode_info(det_filename, det_series)
  /\ det_pc' = "done"
  /\ UNCHANGED <<det_filename, det_series, storeVars, concVars>>

NextDetect == Detect

SpecDetect == InitDetect /\ [][NextDetect]_vars

(***************************************************************************)
(* Two searches for the same series running concurrently                   *)
(* Each process runs search_series; the steps of _save_series_data that    *)
(* touch the file are separate: io.open truncates, file.write fills the    *)
(* file object's buffer, the close flushes the buffer at the file object's *)
(* own position 0.                                                         *)
(***************************************************************************)
ConcName == NameAb

ConcDates == {DateMon, DateTues}

ConcResponses ==
  { ResponsesOf(<<>>, 1, OkResponse(<<>>)),
    ResponsesOf(<<EntryEp3>>, 1, StatusResponse) }

\* writing data at position 0 of a file that holds old
Overwrite(old, data) == data \o SubSeq(old, Len(data) + 1, Len(old))

\* the queries and the classification, up to the call of _save_series_data
CStart(p) ==
  /\ pc[p] = "idle"
  /\ \E r \in ConcResponses, d \in ConcDates :
       proc_data' = [proc_data EXCEPT ![p] = search_series(ConcName, r, d).series_data]
  /\ pc' = [pc EXCEPT ![p] = "open"]
  /\ UNCHANGED <<proc_buf, finished, storeVars, detVars>>

\* io.open(file_path, 'w')
COpen(p) ==
  /\ pc[p] = "open"
  /\ db_files' = WithFile(db_files, FilePath(ConcName), <<>>)
  /\ pc' = [pc EXCEPT ![p] = "write"]
  /\ UNCHANGED <<proc_data, proc_buf, finished, db_written, searched, op, arg,
                 api_responses, search_ret, load_ret, list_ret, detVars>>

\* json.dumps and file.write; the exception of json.dumps ends the with block,
\* which closes the file with nothing written, and is logged
CWrite(p) ==
  /\ pc[p] = "write"
  /\ \E d \in {JsonDumps(proc_data[p])} :
       IF d.raised
       THEN /\ pc' = [pc EXCEPT ![p] = "done"]
            /\ finished' = Append(finished, p)
            /\ UNCHANGED proc_buf
       ELSE /\ pc' = [pc EXCEPT ![p] = "close"]
            /\ proc_buf' = [proc_buf EXCEPT ![p] = d.text]
            /\ UNCHANGED finished
  /\ UNCHANGED <<proc_data, storeVars, detVars>>

\* file.close(): the buffer goes to the file
CClose(p) ==
  /\ pc[p] = "close"
  /\ db_files' = WithFile(db_files, FilePath(ConcName),
                          Overwrite(db_files[FilePath(ConcName)], proc_buf[p]))
  /\ pc' = [pc EXCEPT ![p] = "done"]
  /\ finished' = Append(finished, p)
  /\ UNCHANGED <<proc_data, proc_buf, db_written, searched, op, arg,
                 api_responses, search_ret, load_ret, list_ret, detVars>>

Start == \E p \in Procs : CStart(p)

Open == \E p \in Procs : COpen(p)

Write == \E p \in Procs : CWrite(p)

Close == \E p \in Procs : CClose(p)

NextConc == Start \/ Open \/ Write \/ Close

SpecConc == Init /\ [][NextConc]_vars

(***************************************************************************)
(* Properties                                                              *)
(***************************************************************************)
\* the episode records of a catalog
RecordsOf(series_data) ==
  UNION { { series_data.seasons[s].eps[e].ep : e \in DOMAIN series_data.seasons[s].eps } :
          s \in DOMAIN series_data.seasons }

SearchReturned == op = "search" /\ ~search_ret.raised

\* C1: after save(name, catalog), with no other write to the file and no I/O
\* fault, load(name) returns a catalog equal to the one saved
C1_RoundTrip ==
  (/\ op = "load"
   /\ FilePath(arg) \in DOMAIN db_written
   /\ db_written[FilePath(arg)].kind = "saved")
  => load_ret = JsonOfCatalog(db_written[FilePath(arg)].series_data)

\* C2: in every catalog returned by search, every episode record has a
\* non-empty streams list whose first element has the record's ident and name
C2_FirstStreamIsRecord ==
  SearchReturned =>
    \A ep \in RecordsOf(search_ret.series_data) :
      /\ Len(ep.streams) >= 1
      /\ ep.streams[1].ident = ep.rec.ident
      /\ ep.streams[1].name = ep.rec.name

\* a search returned a record with two streams of different names
C2_Witness ==
  /\ SearchReturned
  /\ \E ep \in RecordsOf(search_ret.series_data) :
       /\ Len(ep.streams) >= 2
       /\ ep.streams[2].name # ep.streams[1].name
       /\ ep.streams[1].name = ep.rec.name

\* C3: a query whose response has a non-OK status or is malformed contributes
\* nothing; search does not abort, issues every query, saves and returns
C3_ErrorIsolation ==
  op = "search" =>
    /\ ~search_ret.raised
    /\ search_ret.issued = NumQueries
    /\ FilePath(arg) \in DOMAIN db_files

DiscoveryOf(responses) ==
  Flatten([k \in 1..Len(responses) |->
             IF responses[k].kind = "ok" THEN responses[k].files ELSE <<>>])

\* is_candidate and detect of the pool entries, computed once
ClassTable ==
  [n \in SearchNames |->
     [e \in EntryPool |->
        IF _is_likely_episode(e.name, n)
        THEN _detect_episode_info(e.name, n) ELSE NoEpisode]]

\* the (season, episode) of a candidate entry; NoEpisode for an entry that is
\* no candidate or that detect rejects
ClassOf(series_name, entry) ==
  IF series_name \in SearchNames /\ entry \in EntryPool
  THEN ClassTable[series_name][entry]
  ELSE IF _is_likely_episode(entry.name, series_name)
       THEN _detect_episode_info(entry.name, series_name) ELSE NoEpisode

\* positions of the discovery sequence where an entry is seen for the first
\* time and is a candidate that detect maps to pair
BucketPositions(disc, series_name, pair) ==
  {q \in DOMAIN disc :
     /\ \A r \in 1..(q - 1) : disc[r] # disc[q]
     /\ ClassOf(series_name, disc[q]) = pair}

\* the i-th smallest element of a set of numbers
Nth(P, i) == CHOOSE q \in P : Cardinality({r \in P : r < q}) = i - 1

\* C5: the streams of every (season, episode) are the distinct candidate
\* entries that detect maps to the pair, in discovery order, each once; the
\* record's name, ident and size are those of the first discovered one; and
\* every classified candidate is in the catalog
C5_FirstSeenWins ==
  SearchReturned =>
    LET disc    == DiscoveryOf(api_responses)
        seasons == search_ret.series_data.seasons
    IN  /\ \A s \in DOMAIN seasons : \A e \in DOMAIN seasons[s].eps :
             LET ep == seasons[s].eps[e].ep
                 P  == BucketPositions(disc, arg,
                         <<IntOf(seasons[s].key), IntOf(seasons[s].eps[e].key)>>)
             IN  /\ P # {}
                 /\ ep.streams = [i \in 1..Cardinality(P) |-> StreamOf(disc[Nth(P, i)])]
                 /\ ep.rec = StreamOf(disc[Min(P)])
        /\ \A q \in DOMAIN disc :
             LET info == ClassOf(arg, disc[q]) IN
             info # NoEpisode =>
               \E s \in DOMAIN seasons : \E e \in DOMAIN seasons[s].eps :
                 /\ seasons[s].key = StrOf(info[1])
                 /\ seasons[s].eps[e].key = StrOf(info[2])
        /\ \A s1, s2 \in DOMAIN seasons :
             seasons[s1].key = seasons[s2].key => s1 = s2
        /\ \A s \in DOMAIN seasons : \A e1, e2 \in DOMAIN seasons[s].eps :
             seasons[s].eps[e1].key = seasons[s].eps[e2].key => e1 = e2

\* a search met the same raw entry twice and returned a record with two streams
C5_Witness ==
  /\ SearchReturned
  /\ \E q, r \in DOMAIN DiscoveryOf(api_responses) :
       q < r /\ DiscoveryOf(api_responses)[q] = DiscoveryOf(api_responses)[r]
  /\ \E ep \in RecordsOf(search_ret.series_data) :
       Len(ep.streams) >= 2 /\ ep.streams[1] # ep.streams[2]

\* C6: load returns None, without raising, when the file is absent, empty,
\* truncated or otherwise unparsable, and the stored catalog when the file is
\* the complete text of a save
C6_LoadNeverFails ==
  op = "load" =>
    LET path == FilePath(arg) IN
    IF path \notin DOMAIN db_files THEN load_ret = NoneVal
    ELSE IF db_written[path].kind = "saved" /\ db_files[path] # <<>>
         THEN load_ret = JsonOfCatalog(db_written[path].series_data)
         ELSE load_ret = NoneVal

\* a file cut short by a crash, with text in it, was loaded
C6_Witness ==
  /\ op = "load"
  /\ FilePath(arg) \in DOMAIN db_files
  /\ db_written[FilePath(arg)].kind = "truncated"
  /\ Len(db_files[FilePath(arg)]) > MaxCut
  /\ load_ret = NoneVal

\* C7: when two concurrent searches for the same series have both completed,
\* the file holds exactly the complete catalog of the save that ended last
C7_LastSaveWins ==
  (\A p \in Procs : pc[p] = "done") =>
    db_files[FilePath(ConcName)]
      = Encode(JsonOfCatalog(proc_data[finished[Len(finished)]]), 0)

TextS03E07 == <<"s","0","3","e","0","7">>

\* C8 as claimed: when the cleaned string contains S03E07 (any case), detect
\* returns (3, 7)
C8_ContainsS03E07 ==
  (det_pc = "done" /\ Contains(Lower(det_cleaned), TextS03E07))
  => det_result = <<3, 7>>

\* a season/episode marker (s, digits, e, digit) starts at position j of s
MarkerAt(s, j) ==
  /\ j \in DOMAIN s
  /\ s[j] \in {"s", "S"}
  /\ \E n \in 1..Len(s) :
       /\ j + n + 2 <= Len(s)
       /\ \A k \in 1..n : IsDigit(s[j + k])
       /\ s[j + n + 1] \in {"e", "E"}
       /\ IsDigit(s[j + n + 2])

\* the first marker of s is S03E07 with no digit after it
FirstMarkerIsS03E07(s) ==
  \E i \in DOMAIN s :
    /\ OccursAt(Lower(s), TextS03E07, i)
    /\ ~(i + 6 <= Len(s) /\ IsDigit(s[i + 6]))
    /\ \A j \in 1..(i - 1) : ~MarkerAt(s, j)

\* C8 as amended: when the first season/episode marker of the cleaned string
\* is S03E07 (any case) and no digit follows it, detect returns (3, 7)
C8_FirstMarkerS03E07 ==
  (det_pc = "done" /\ FirstMarkerIsS03E07(det_cleaned))
  => det_result = <<3, 7>>

\* detect ran on a filename with more than the marker left after cleaning
C8_Witness ==
  /\ det_pc = "done"
  /\ FirstMarkerIsS03E07(det_cleaned)
  /\ Len(det_cleaned) > Len(TextS03E07)
  /\ det_series # <<>>
  /\ det_result = <<3, 7>>

\* C9 as claimed: cleaned is the normalized filename with only the first
\* occurrence of the normalized series name removed, trimmed, and detect's
\* result is that of the patterns on this string
C9_FirstOccurrenceOnly ==
  det_pc = "done" =>
    LET first == Strip(ReplaceFirst(_normalize(det_filename), _normalize(det_series)))
    IN  det_cleaned = first /\ det_result = DetectOn(first)

\* what is left of s when every occurrence of sub is taken out, scanning from
\* the left: an occurrence is taken when it does not overlap one taken before
WithoutOccurrences(s, sub) ==
  LET taken[i \in 0..Len(s)] ==
        /\ i >= 1
        /\ sub # <<>>
        /\ OccursAt(s, sub, i)
        /\ \A j \in 1..(i - 1) : (j > i - Len(sub)) => ~taken[j]
      gone(q) == \E i \in 1..q : i > q - Len(sub) /\ taken[i]
      kept == {q \in 1..Len(s) : ~gone(q)}
  IN  [i \in 1..Cardinality(kept) |-> s[Nth(kept, i)]]

\* C9 as amended: cleaned is the normalized filename with every occurrence
\* of the normalized series name removed, trimmed, and detect's result is
\* that of the patterns on this string
C9_EveryOccurrence ==
  det_pc = "done" =>
    LET every == Strip(WithoutOccurrences(_normalize(det_filename), _normalize(det_series)))
    IN  det_cleaned = every /\ det_result = DetectOn(every)

\* detect ran on a filename that holds the series name more than once
C9_Witness ==
  /\ det_pc = "done"
  /\ _normalize(det_series) # <<>>
  /\ \E i, j \in 1..Len(_normalize(det_filename)) :
       /\ i + Len(_normalize(det_series)) <= j
       /\ OccursAt(_normalize(det_filename), _normalize(det_series), i)
       /\ OccursAt(_normalize(det_filename), _normalize(det_series), j)
  /\ det_cleaned = Strip(WithoutOccurrences(_normalize(det_filename), _normalize(det_series)))
  /\ det_result # NoEpisode

\* C10: for every entry of the listing, the safe file name of its display
\* name is the file the entry came from
C10_ListLoadConsistent ==
  op = "list" =>
    \A entry \in list_ret : FilePath(entry.name) = entry.filename

=============================================================================
